---- MODULE Spec2Model ----
(***************************************************************************)
(* mqtt-to-influx: the event loop of main, process_message and the two     *)
(* variants of InfluxClient (src/src/main.rs).                             *)
(*                                                                         *)
(* Floating-point numbers (f64) are modelled in tenths: the integer 235    *)
(* stands for 23.5.  Strings are sequences of one-character strings, so    *)
(* that str::parse::<f64> is computed from the characters.                 *)
(***************************************************************************)
EXTENDS Integers, Sequences, FiniteSets, TLC

\* ------------------------------------------------------------------ bounds
\* Number of consecutive transport errors the transport produces.
MaxErrs == 2
\* Length of the longest measurement list of a configuration.
MaxDefs == 2

\* Duration::from_secs(5) passed to tokio::time::sleep.
BACKOFF_SECS == 5

\* ------------------------------------------------------- str::parse::<f64>
Digits == {"0", "1", "2", "3", "4", "5", "6", "7", "8", "9"}

DigitVal(c) ==
    CASE c = "0" -> 0 [] c = "1" -> 1 [] c = "2" -> 2 [] c = "3" -> 3
      [] c = "4" -> 4 [] c = "5" -> 5 [] c = "6" -> 6 [] c = "7" -> 7
      [] c = "8" -> 8 [] c = "9" -> 9

RECURSIVE DecVal(_)
\* The value of a sequence of decimal digits.
DecVal(ds) ==
    IF ds = <<>> THEN 0
    ELSE DecVal(SubSeq(ds, 1, Len(ds) - 1)) * 10 + DigitVal(ds[Len(ds)])

\* s.parse::<f64>() on strings over digits, sign, point and letters:
\* [sign] digits [ "." [digits] ]  or  [sign] "." digits; anything else is
\* Err.  (No string of the model spells inf, nan or an exponent.)  The
\* result is in tenths, the fraction cut to the tenths the model can hold.
ParseF64(s) ==
    LET signed == s # <<>> /\ s[1] \in {"+", "-"}
        body   == IF signed THEN Tail(s) ELSE s
        dots   == {i \in 1..Len(body) : body[i] = "."}
        syntax == /\ \A i \in 1..Len(body) : body[i] \in Digits \cup {"."}
                  /\ Cardinality(dots) <= 1
                  /\ \E i \in 1..Len(body) : body[i] \in Digits
        dot    == IF dots = {} THEN Len(body) + 1 ELSE CHOOSE i \in dots : TRUE
        int    == DecVal(SubSeq(body, 1, dot - 1))
        frac   == IF dot + 1 <= Len(body) THEN DigitVal(body[dot + 1]) ELSE 0
        mag    == int * 10 + frac
    IN  IF syntax
        THEN [ok |-> TRUE, f |-> IF signed /\ s[1] = "-" THEN 0 - mag ELSE mag]
        ELSE [ok |-> FALSE, f |-> 0]

\* ------------------------------------------------------ serde_json::Value
JNull      == [t |-> "null",   n |-> 0, s |-> <<>>, kids |-> <<>>]
JBool(b)   == [t |-> "bool",   n |-> IF b THEN 1 ELSE 0, s |-> <<>>, kids |-> <<>>]
\* A JSON number, integer or float: as_f64 is Some for each of them.
JNum(n)    == [t |-> "number", n |-> n, s |-> <<>>, kids |-> <<>>]
JStr(s)    == [t |-> "string", n |-> 0, s |-> s, kids |-> <<>>]
\* kids: the members <<key, value>> in the order the serializer emits them.
JObj(kids) == [t |-> "object", n |-> 0, s |-> <<>>, kids |-> kids]
JArr(vals) == [t |-> "array",  n |-> 0, s |-> <<>>,
               kids |-> [i \in 1..Len(vals) |-> <<"", vals[i]>>]]

RECURSIVE Flatten(_)
Flatten(ss) == IF ss = <<>> THEN <<>> ELSE Head(ss) \o Flatten(Tail(ss))

RECURSIVE Find(_, _)
\* JsonPathFinder::find: the values a path of child segments selects, in
\* document order; "*" selects every child of an object or array.
Find(v, segs) ==
    IF segs = <<>> THEN <<v>>
    ELSE LET seg  == Head(segs)
             hits == [i \in 1..Len(v.kids) |->
                        IF \/ seg = "*"
                           \/ (v.t = "object" /\ v.kids[i][1] = seg)
                        THEN Find(v.kids[i][2], Tail(segs))
                        ELSE <<>>]
         IN  Flatten(hits)

\* ------------------------------------------------------- evalexpr::Value
\* Option<String> expression of a MeasurementConfig; a and b are in tenths.
\*   linear     "value * a + b"  evaluates to a Float
\*   int        "b"              an integer literal, evaluates to an Int
\*   bool       "value > b"      evaluates to a Boolean
\*   undefined  "value + x"      x is not in a fresh context: Err
\*   syntax     "value *"        does not parse: Err
\*   assign     "x = value"      sets x in the context, evaluates to Empty
\*   string     "\"b\""          evaluates to a String
\*   tuple      "(value, b)"     evaluates to a Tuple
NoExpr         == [kind |-> "none", a |-> 0, b |-> 0]
ExprLinear(a, b) == [kind |-> "linear", a |-> a, b |-> b]
ExprInt(i)     == [kind |-> "int", a |-> 0, b |-> i]
ExprBool(b)    == [kind |-> "bool", a |-> 0, b |-> b]
ExprUndefined  == [kind |-> "undefined", a |-> 0, b |-> 0]
ExprSyntax     == [kind |-> "syntax", a |-> 0, b |-> 0]
ExprAssign     == [kind |-> "assign", a |-> 0, b |-> 0]
ExprString     == [kind |-> "string", a |-> 0, b |-> 0]
ExprTuple(b)   == [kind |-> "tuple", a |-> 0, b |-> b]

\* A context holding x from an expression evaluated earlier.
HashMapContextStale == [value |-> <<>>, x |-> <<10>>]

\* HashMapContext::new(): no variable is set (<<>> is unset).
HashMapContextNew == [value |-> <<>>, x |-> <<>>]

\* eval_with_context_mut(expr, &mut context): the result of the evaluation
\* (the context is dropped after it).  f is a Float in tenths, i an Int.
eval_with_context_mut(expr, context) ==
    LET value == context.value[1]
    IN  CASE expr.kind = "linear" ->
               [ok |-> TRUE, ty |-> "Float", f |-> (value * expr.a) \div 10 + expr.b, i |-> 0]
          [] expr.kind = "int" ->
               [ok |-> TRUE, ty |-> "Int", f |-> 0, i |-> expr.b]
          [] expr.kind = "bool" ->
               [ok |-> TRUE, ty |-> "Boolean", f |-> 0, i |-> IF value > expr.b THEN 1 ELSE 0]
          [] expr.kind = "assign" ->
               [ok |-> TRUE, ty |-> "Empty", f |-> 0, i |-> 0]
          [] expr.kind = "string" ->
               [ok |-> TRUE, ty |-> "String", f |-> 0, i |-> 0]
          [] expr.kind = "tuple" ->
               [ok |-> TRUE, ty |-> "Tuple", f |-> 0, i |-> 0]
          [] expr.kind = "undefined" /\ context.x # <<>> ->
               [ok |-> TRUE, ty |-> "Float", f |-> value + context.x[1], i |-> 0]
          [] OTHER ->
               [ok |-> FALSE, ty |-> "Err", f |-> 0, i |-> 0]

\* ---------------------------------------------------------- configuration
NoTags     == [some |-> FALSE, kv |-> {}]
Tags(kv)   == [some |-> TRUE, kv |-> kv]

\* A JSONPath string: whether it parses, and its child segments.
Path(segs) == [valid |-> TRUE, segs |-> segs]
PathInvalid == [valid |-> FALSE, segs |-> <<>>]

MeasurementConfig(name, path, expression, tags) ==
    [name |-> name, path |-> path, expression |-> expression, tags |-> tags]

DTemp  == MeasurementConfig("temperature", Path(<<"sensors", "temp">>), NoExpr, NoTags)
DTempF == MeasurementConfig("temp_f", Path(<<"sensors", "temp">>),
                            ExprLinear(18, 320), Tags({<<"unit", "F">>}))
DHum   == MeasurementConfig("humidity", Path(<<"sensors", "hum">>), ExprUndefined, NoTags)
DAll   == MeasurementConfig("first", Path(<<"sensors", "*">>), ExprInt(7), Tags({}))
DFlag  == MeasurementConfig("flag", Path(<<"sensors", "temp">>), ExprBool(0), NoTags)
DRaw   == MeasurementConfig("raw", Path(<<"sensors", "hum">>), ExprSyntax, NoTags)
DSet   == MeasurementConfig("set", Path(<<"sensors", "temp">>), ExprAssign, NoTags)
DStr   == MeasurementConfig("label", Path(<<"sensors", "hum">>), ExprString, NoTags)
DTup   == MeasurementConfig("pair", Path(<<"sensors", "temp">>), ExprTuple(2), NoTags)
DBad   == MeasurementConfig("broken", PathInvalid, NoExpr, NoTags)

Defs == {DTemp, DTempF, DHum, DAll, DFlag, DRaw, DSet, DStr, DTup, DBad}

RECURSIVE SeqsUpTo(_, _)
SeqsUpTo(S, n) ==
    IF n = 0 THEN {<<>>}
    ELSE LET shorter == SeqsUpTo(S, n - 1)
         IN  shorter \cup {Append(q, d) : q \in shorter, d \in S}

\* Option<bool> terminate_on_error.
OptBool == {"None", "true", "false"}

\* The settings documents: one that toml::from_str rejects, and the
\* well-formed ones, whose influxdb.version is any u8 (0..3 here).
Configs ==
    [wellformed : {TRUE}, version : 0..3, bucket : {"telemetry"},
     terminate_on_error : OptBool, measurements : SeqsUpTo(Defs, MaxDefs)]
    \cup
    [wellformed : {FALSE}, version : {0}, bucket : {""},
     terminate_on_error : {"None"}, measurements : {<<>>}]

\* --------------------------------------------------------------- payloads
Sensors(kids) == JObj(<< <<"sensors", JObj(kids)>> >>)

Bytes(utf8, json_ok, v) == [utf8 |-> utf8, json_ok |-> json_ok, json |-> v]

Payloads ==
    { Bytes(TRUE, TRUE, Sensors(<< <<"hum", JNum(400)>>, <<"temp", JNum(235)>> >>)),
      Bytes(TRUE, TRUE, Sensors(<< <<"temp", JStr(<<"2", "3", ".", "5">>)>> >>)),
      Bytes(TRUE, TRUE, Sensors(<< <<"hum", JStr(<<"-", "4">>)>>,
                                   <<"temp", JStr(<<"a", "b", "c">>)>> >>)),
      Bytes(TRUE, TRUE, Sensors(<< <<"hum", JStr(<<".">>)>>, <<"temp", JBool(TRUE)>> >>)),
      Bytes(TRUE, TRUE, Sensors(<< <<"hum", JNull>>, <<"temp", JNum(0)>> >>)),
      Bytes(TRUE, TRUE, JObj(<< <<"other", JArr(<<JNum(10)>>)>> >>)),
      Bytes(TRUE, FALSE, JNull),
      Bytes(FALSE, FALSE, JNull) }

\* ------------------------------------------------------------ InfluxClient
NoClient == [variant |-> "none", database |-> ""]

\* InfluxClient::new: the variant the version selects.  Version 1 binds the
\* database (config.bucket) into the client; any version but 1 and 2 panics.
InfluxClientNew(influxdb) ==
    CASE influxdb.version = 1 -> [variant |-> "V1", database |-> influxdb.bucket]
      [] influxdb.version = 2 -> [variant |-> "V2", database |-> ""]
      [] OTHER                -> [variant |-> "panic", database |-> ""]

\* The tags a write attaches: none for None, the map's entries for Some.
TagSet(tags) == IF tags.some THEN tags.kv ELSE {}

\* InfluxWrite with the V2 arm's tag loop left out.
InfluxWriteV2DropsTags(client, measurement, value, bucket, tags) ==
    IF client.variant = "V1"
    THEN [framing |-> "V1", target |-> client.database,
          points |-> << [measurement |-> measurement,
                         fields |-> {<<"value", value>>},
                         tags |-> TagSet(tags),
                         timestamp |-> "now"] >>]
    ELSE [framing |-> "V2", target |-> bucket,
          points |-> << [measurement |-> measurement,
                         fields |-> {<<"value", value>>},
                         tags |-> {},
                         timestamp |-> "unset"] >>]

\* InfluxClient::write: the request handed to the backend.  V1 is one
\* WriteQuery stamped with Utc::now(), sent to the client's database; V2 is
\* a batch of one DataPoint, built without a timestamp, sent to the bucket.
InfluxWrite(client, measurement, value, bucket, tags) ==
    IF client.variant = "V1"
    THEN [framing |-> "V1", target |-> client.database,
          points |-> << [measurement |-> measurement,
                         fields |-> {<<"value", value>>},
                         tags |-> TagSet(tags),
                         timestamp |-> "now"] >>]
    ELSE [framing |-> "V2", target |-> bucket,
          points |-> << [measurement |-> measurement,
                         fields |-> {<<"value", value>>},
                         tags |-> TagSet(tags),
                         timestamp |-> "unset"] >>]

\* --------------------------------------------------------- process_message
\* Coerce with an unparseable string skipped instead of read as 0.0.
CoerceStrict(val) ==
    IF val.t = "number" THEN [skip |-> FALSE, f |-> val.n]
    ELSE IF val.t = "string"
         THEN [skip |-> ~ParseF64(val.s).ok, f |-> ParseF64(val.s).f]
         ELSE [skip |-> TRUE, f |-> 0]

\* Coerce with a boolean read as 1.0 or 0.0.
CoerceBoolAsNumber(val) ==
    IF val.t \in {"number", "bool"} THEN [skip |-> FALSE, f |-> val.n * 10]
    ELSE IF val.t = "string"
         THEN [skip |-> FALSE,
               f |-> IF ParseF64(val.s).ok THEN ParseF64(val.s).f ELSE 0]
         ELSE [skip |-> TRUE, f |-> 0]

\* Numeric coercion of the first match.
Coerce(val) ==
    IF val.t = "number" THEN [skip |-> FALSE, f |-> val.n]
    ELSE IF val.t = "string"
         THEN [skip |-> FALSE,
               f |-> IF ParseF64(val.s).ok THEN ParseF64(val.s).f ELSE 0]
         ELSE [skip |-> TRUE, f |-> 0]

\* ApplyExpression with a failed evaluation yielding 0.0.
ApplyExpressionZeroOnError(float_val, expression) ==
    IF expression.kind = "none" THEN float_val
    ELSE LET context  == [HashMapContextNew EXCEPT !.value = <<float_val>>]
             eval_res == eval_with_context_mut(expression, context)
         IN  IF ~eval_res.ok THEN 0
             ELSE IF eval_res.ty = "Float" THEN eval_res.f
             ELSE IF eval_res.ty = "Int" THEN eval_res.i * 10
             ELSE float_val

\* ApplyExpression with an Int result left aside and any other successful
\* result taken as 0.0.
ApplyExpressionFloatOnly(float_val, expression) ==
    IF expression.kind = "none" THEN float_val
    ELSE LET context  == [HashMapContextNew EXCEPT !.value = <<float_val>>]
             eval_res == eval_with_context_mut(expression, context)
         IN  IF ~eval_res.ok THEN float_val
             ELSE IF eval_res.ty = "Float" THEN eval_res.f
             ELSE IF eval_res.ty = "Int" THEN float_val
             ELSE 0

\* The value after the optional expression, evaluated in a context made for
\* it that holds value alone: a Float result replaces the value, an Int
\* result replaces it as a float, anything else leaves it.
ApplyExpression(float_val, expression) ==
    IF expression.kind = "none" THEN float_val
    ELSE LET context  == [HashMapContextNew EXCEPT !.value = <<float_val>>]
             eval_res == eval_with_context_mut(expression, context)
         IN  IF ~eval_res.ok THEN float_val
             ELSE IF eval_res.ty = "Float" THEN eval_res.f
             ELSE IF eval_res.ty = "Int" THEN eval_res.i * 10
             ELSE float_val

\* EvalDefinition with an empty match treated as an error of the call.
EvalDefinitionNoMatchFails(json, m_config) ==
    IF ~m_config.path.valid \/ Find(json, m_config.path.segs) = <<>>
    THEN [kind |-> "path_err", coerced |-> 0, float_val |-> 0, evaluated |-> FALSE]
    ELSE LET c == Coerce(Find(json, m_config.path.segs)[1])
         IN  IF c.skip
             THEN [kind |-> "skip", coerced |-> 0, float_val |-> 0, evaluated |-> FALSE]
             ELSE [kind |-> "write", coerced |-> c.f,
                   float_val |-> ApplyExpression(c.f, m_config.expression),
                   evaluated |-> m_config.expression.kind # "none"]

\* EvalDefinition with a path that does not parse skipped like an empty match.
EvalDefinitionBadPathSkips(json, m_config) ==
    IF ~m_config.path.valid \/ Find(json, m_config.path.segs) = <<>>
    THEN [kind |-> "skip", coerced |-> 0, float_val |-> 0, evaluated |-> FALSE]
    ELSE LET c == Coerce(Find(json, m_config.path.segs)[1])
         IN  IF c.skip
             THEN [kind |-> "skip", coerced |-> 0, float_val |-> 0, evaluated |-> FALSE]
             ELSE [kind |-> "write", coerced |-> c.f,
                   float_val |-> ApplyExpression(c.f, m_config.expression),
                   evaluated |-> m_config.expression.kind # "none"]

\* The body of the for loop up to the write call, for one definition:
\* path_err (from_str fails), skip (no match, or continue), or write;
\* evaluated tells whether the definition's expression was evaluated.
EvalDefinition(json, m_config) ==
    IF ~m_config.path.valid
    THEN [kind |-> "path_err", coerced |-> 0, float_val |-> 0, evaluated |-> FALSE]
    ELSE LET found == Find(json, m_config.path.segs)
         IN  IF found = <<>>
             THEN [kind |-> "skip", coerced |-> 0, float_val |-> 0, evaluated |-> FALSE]
             ELSE LET c == Coerce(found[1])
                  IN  IF c.skip
                      THEN [kind |-> "skip", coerced |-> 0, float_val |-> 0, evaluated |-> FALSE]
                      ELSE [kind |-> "write", coerced |-> c.f,
                            float_val |-> ApplyExpression(c.f, m_config.expression),
                            evaluated |-> m_config.expression.kind # "none"]

RECURSIVE RunFrom(_, _, _)

\* RunFrom that ends the loop at the first definition it skips.
RunFromBreaksOnSkip(json, measurements, i) ==
    IF i > Len(measurements)
    THEN [kind |-> "done", idx |-> 0, coerced |-> 0, float_val |-> 0, evals |-> {}]
    ELSE LET r == EvalDefinition(json, measurements[i])
         IN  IF r.kind = "skip"
             THEN [kind |-> "done", idx |-> 0, coerced |-> 0, float_val |-> 0, evals |-> {}]
             ELSE [kind |-> r.kind, idx |-> i, coerced |-> r.coerced,
                   float_val |-> r.float_val,
                   evals |-> IF r.evaluated THEN {i} ELSE {}]

\* The for loop from definition i on, up to its next await or return:
\* the write of definition idx, the path error of definition idx, or done;
\* evals are the definitions whose expression was evaluated on the way.
RunFrom(json, measurements, i) ==
    IF i > Len(measurements)
    THEN [kind |-> "done", idx |-> 0, coerced |-> 0, float_val |-> 0, evals |-> {}]
    ELSE LET r == EvalDefinition(json, measurements[i])
             mine == IF r.evaluated THEN {i} ELSE {}
         IN  IF r.kind = "skip"
             THEN LET rest == RunFrom(json, measurements, i + 1)
                  IN  [rest EXCEPT !.evals = @ \cup mine]
             ELSE [kind |-> r.kind, idx |-> i, coerced |-> r.coerced,
                   float_val |-> r.float_val, evals |-> mine]

\* ProcessStart that reads a payload that is not JSON as null.
ProcessStartLenient(bytes, measurements) ==
    IF ~bytes.utf8
    THEN [kind |-> "encoding_err", idx |-> 0, coerced |-> 0, float_val |-> 0, evals |-> {}]
    ELSE RunFrom(bytes.json, measurements, 1)

\* process_message from its entry up to its first await or return.
ProcessStart(bytes, measurements) ==
    IF ~bytes.utf8
    THEN [kind |-> "encoding_err", idx |-> 0, coerced |-> 0, float_val |-> 0, evals |-> {}]
    ELSE IF ~bytes.json_ok
    THEN [kind |-> "json_err", idx |-> 0, coerced |-> 0, float_val |-> 0, evals |-> {}]
    ELSE RunFrom(bytes.json, measurements, 1)

\* ------------------------------------------------------------------ state
VARIABLES
    config,        \* the settings document read at startup
    pc,            \* main's position: load, new_client, subscribe, poll,
                   \*   write (inside process_message, awaiting a write),
                   \*   sleep (awaiting the backoff), exit
    influx_client, \* the InfluxClient built at startup
    network,       \* whether the transport's event loop holds a connection
    firstConnect,  \* the transport's first connection attempt: pending, ok, failed
    event,         \* what this iteration's poll returned: none, publish, other, error
    payload,       \* this iteration's publish payload (dropped with the iteration)
    writes,        \* write calls of this iteration's process_message call
    result,        \* this iteration's process_message call and how it returned
    calls,         \* process_message calls made for this iteration's event
    evals,         \* definitions whose expression this iteration's call evaluated
    exit,          \* how main ended
    errs,          \* consecutive Err results of poll
    sleepFor       \* seconds of the sleep main is awaiting

vars == <<config, pc, influx_client, network, firstConnect, event, payload,
          writes, result, calls, evals, exit, errs, sleepFor>>

NoError          == [kind |-> "None", def |-> 0]
Error(kind, def) == [kind |-> kind, def |-> def]
NoExit           == [kind |-> "running", error |-> NoError]
NoResult         == [status |-> "none", err |-> NoError]
NoPayload        == Bytes(FALSE, FALSE, JNull)

\* The loop's two states of the design.
Connected  == pc \in {"poll", "write", "sleep"}
Terminated == pc = "exit"

Init ==
    /\ config \in Configs
    /\ pc = "load"
    /\ influx_client = NoClient
    /\ network = FALSE
    /\ firstConnect = "pending"
    /\ event = "none"
    /\ payload = NoPayload
    /\ writes = <<>>
    /\ result = NoResult
    /\ calls = 0
    /\ evals = {}
    /\ exit = NoExit
    /\ errs = 0
    /\ sleepFor = 0

\* ---------------------------------------------------------------- startup
\* toml::from_str(&config_content)?
LoadConfig ==
    /\ pc = "load"
    /\ IF config.wellformed
       THEN pc' = "new_client" /\ exit' = exit
       ELSE pc' = "exit" /\ exit' = [kind |-> "error", error |-> Error("Config", 0)]
    /\ UNCHANGED <<config, influx_client, network, firstConnect, event, payload,
                   writes, result, calls, evals, errs, sleepFor>>

\* InfluxClient::new(&config.influxdb)
NewClient ==
    /\ pc = "new_client"
    /\ LET c == InfluxClientNew(config)
       IN  IF c.variant = "panic"
           THEN /\ pc' = "exit"
                /\ exit' = [kind |-> "panic", error |-> NoError]
                /\ influx_client' = influx_client
           ELSE /\ pc' = "subscribe"
                /\ exit' = exit
                /\ influx_client' = c
    /\ UNCHANGED <<config, network, firstConnect, event, payload, writes, result,
                   calls, evals, errs, sleepFor>>

\* AsyncClient::new(mqttoptions, 10) builds the client and the event loop and
\* opens no connection; client.subscribe(..).await? hands the request to the
\* event loop's channel and fails only if that hand-over fails.
Subscribe ==
    /\ pc = "subscribe"
    /\ \E sent \in BOOLEAN :
         IF sent
         THEN pc' = "poll" /\ exit' = exit
         ELSE pc' = "exit" /\ exit' = [kind |-> "error", error |-> Error("Subscribe", 0)]
    /\ UNCHANGED <<config, influx_client, network, firstConnect, event, payload,
                   writes, result, calls, evals, errs, sleepFor>>

\* ------------------------------------------------------------- event loop
\* Every iteration of the loop starts from a fresh poll: the event, payload
\* and process_message call of the iteration before it are gone.
\* terminate_on_error = config.terminate_on_error.unwrap_or(false)
TerminateOnError == config.terminate_on_error = "true"

\* AfterProcess with the terminate_on_error test dropped.
AfterProcessNeverTerminates(res) ==
    [pc |-> "poll", exit |-> NoExit]

\* AfterProcess that returns every error, whatever terminate_on_error is.
AfterProcessAlwaysTerminates(res) ==
    IF res.status = "err"
    THEN [pc |-> "exit", exit |-> [kind |-> "error", error |-> res.err]]
    ELSE [pc |-> "poll", exit |-> NoExit]

\* The Publish arm after process_message returned res.
AfterProcess(res) ==
    IF res.status = "err" /\ TerminateOnError
    THEN [pc |-> "exit", exit |-> [kind |-> "error", error |-> res.err]]
    ELSE [pc |-> "poll", exit |-> NoExit]

\* AfterTransportError with a delay that grows with the consecutive errors.
AfterTransportErrorGrowing(n) ==
    IF TerminateOnError
    THEN [pc |-> "exit", sleepFor |-> 0,
          exit |-> [kind |-> "error", error |-> Error("Transport", 0)]]
    ELSE [pc |-> "sleep", sleepFor |-> BACKOFF_SECS * n, exit |-> NoExit]

\* The Err arm of the match on poll's result; n is the count of
\* consecutive errors, which the arm does not read.
AfterTransportError(n) ==
    IF TerminateOnError
    THEN [pc |-> "exit", sleepFor |-> 0,
          exit |-> [kind |-> "error", error |-> Error("Transport", 0)]]
    ELSE [pc |-> "sleep", sleepFor |-> BACKOFF_SECS, exit |-> NoExit]

\* The write call process_message makes for definition r.idx.
Call(r) ==
    LET m_config == config.measurements[r.idx]
    IN  [def |-> r.idx, coerced |-> r.coerced, outcome |-> "pending",
         request |-> InfluxWrite(influx_client, m_config.name, r.float_val,
                                 config.bucket, m_config.tags)]

\* process_message runs on to r, having made the write calls ws and
\* evaluated the expressions of es: it awaits the next write, or returns
\* and main matches on the result.
Continue(r, ws, es) ==
    IF r.kind = "write"
    THEN /\ pc' = "write"
         /\ evals' = es \cup r.evals
         /\ writes' = Append(ws, Call(r))
         /\ result' = [status |-> "running", err |-> NoError]
         /\ exit' = exit
    ELSE LET res == CASE r.kind = "done" ->
                           [status |-> "ok", err |-> NoError]
                      [] r.kind = "path_err" ->
                           [status |-> "err", err |-> Error("Path", r.idx)]
                      [] r.kind = "write_err" ->
                           [status |-> "err", err |-> Error("Write", r.idx)]
                      [] r.kind = "encoding_err" ->
                           [status |-> "err", err |-> Error("Encoding", 0)]
                      [] r.kind = "json_err" ->
                           [status |-> "err", err |-> Error("Json", 0)]
             nxt == AfterProcess(res)
         IN  /\ pc' = nxt.pc
             /\ evals' = es \cup r.evals
             /\ writes' = ws
             /\ result' = res
             /\ exit' = nxt.exit

\* poll() returns Ok(Event::Incoming(Packet::Publish(publish))).
PollPublish ==
    /\ pc = "poll"
    /\ network
    /\ \E bytes \in Payloads :
         /\ payload' = bytes
         /\ Continue(ProcessStart(bytes, config.measurements), <<>>, {})
    /\ event' = "publish"
    /\ calls' = 1
    /\ errs' = 0
    /\ UNCHANGED <<config, influx_client, network, firstConnect, sleepFor>>

\* PollOther by a loop that does not wait for process_message to return
\* before it polls again.
PollOtherWhileWriting ==
    /\ pc \in {"poll", "write"}
    /\ \E ev \in {"ConnAck", "SubAck", "PingResp", "Outgoing"} :
         /\ (ev = "ConnAck") = ~network
         /\ network' = TRUE
         /\ firstConnect' = IF firstConnect = "pending" THEN "ok" ELSE firstConnect
    /\ errs' = 0
    /\ event' = "other"
    /\ IF pc = "poll"
       THEN /\ payload' = NoPayload /\ writes' = <<>> /\ result' = NoResult
            /\ calls' = 0 /\ evals' = {}
       ELSE UNCHANGED <<payload, writes, result, calls, evals>>
    /\ UNCHANGED <<config, pc, influx_client, exit, sleepFor>>

\* PollOther that backs off after the event, as after an error.
PollOtherSleeps ==
    /\ pc = "poll"
    /\ \E ev \in {"ConnAck", "SubAck", "PingResp", "Outgoing"} :
         /\ (ev = "ConnAck") = ~network
         /\ network' = TRUE
         /\ firstConnect' = IF firstConnect = "pending" THEN "ok" ELSE firstConnect
    /\ errs' = 0
    /\ event' = "other"
    /\ payload' = NoPayload /\ writes' = <<>> /\ result' = NoResult /\ calls' = 0
    /\ evals' = {}
    /\ pc' = "sleep" /\ sleepFor' = BACKOFF_SECS
    /\ UNCHANGED <<config, influx_client, exit>>

\* poll() returns Ok of any other event.  Without a connection poll first
\* connects, and the event is the ConnAck; with one it is any other packet.
PollOther ==
    /\ pc = "poll"
    /\ \E ev \in {"ConnAck", "SubAck", "PingResp", "Outgoing"} :
         /\ (ev = "ConnAck") = ~network
         /\ network' = TRUE
         /\ firstConnect' = IF firstConnect = "pending" THEN "ok" ELSE firstConnect
    /\ errs' = 0
    /\ event' = "other"
    /\ payload' = NoPayload /\ writes' = <<>> /\ result' = NoResult /\ calls' = 0
    /\ evals' = {}
    /\ UNCHANGED <<config, pc, influx_client, exit, sleepFor>>

\* poll() returns Err: the connection attempt failed, or the connection broke.
PollError ==
    /\ pc = "poll"
    /\ errs < MaxErrs
    /\ errs' = errs + 1
    /\ network' = FALSE
    /\ firstConnect' = IF firstConnect = "pending" /\ ~network
                       THEN "failed" ELSE firstConnect
    /\ LET nxt == AfterTransportError(errs + 1)
       IN  pc' = nxt.pc /\ sleepFor' = nxt.sleepFor /\ exit' = nxt.exit
    /\ event' = "error"
    /\ payload' = NoPayload /\ writes' = <<>> /\ result' = NoResult /\ calls' = 0
    /\ evals' = {}
    /\ UNCHANGED <<config, influx_client>>

\* tokio::time::sleep(..).await completes; the loop polls again.
Wake ==
    /\ pc = "sleep"
    /\ pc' = "poll"
    /\ sleepFor' = 0
    /\ UNCHANGED <<config, influx_client, network, firstConnect, event, payload,
                   writes, result, calls, evals, exit, errs>>

Settle(ws, outcome) == [ws EXCEPT ![Len(ws)].outcome = outcome]

\* WriteOk that goes on with the same definition instead of the next.
WriteOkRepeats ==
    /\ pc = "write"
    /\ LET idx == writes[Len(writes)].def
       IN  Continue(RunFrom(payload.json, config.measurements, idx),
                    Settle(writes, "ok"), evals)
    /\ UNCHANGED <<config, influx_client, network, firstConnect, event, payload,
                   calls, errs, sleepFor>>

\* influx_client.write(..).await returns Ok: the for loop goes on.
WriteOk ==
    /\ pc = "write"
    /\ LET idx == writes[Len(writes)].def
       IN  Continue(RunFrom(payload.json, config.measurements, idx + 1),
                    Settle(writes, "ok"), evals)
    /\ UNCHANGED <<config, influx_client, network, firstConnect, event, payload,
                   calls, errs, sleepFor>>

\* WriteErr that logs the error and goes on with the next definition.
WriteErrGoesOn ==
    /\ pc = "write"
    /\ LET idx == writes[Len(writes)].def
       IN  Continue(RunFrom(payload.json, config.measurements, idx + 1),
                    Settle(writes, "err"), evals)
    /\ UNCHANGED <<config, influx_client, network, firstConnect, event, payload,
                   calls, errs, sleepFor>>

\* WriteErr that undoes the writes the call had made.
WriteErrRollsBack ==
    /\ pc = "write"
    /\ LET idx == writes[Len(writes)].def
       IN  Continue([kind |-> "write_err", idx |-> idx, coerced |-> 0, float_val |-> 0,
                     evals |-> {}],
                    <<>>, evals)
    /\ UNCHANGED <<config, influx_client, network, firstConnect, event, payload,
                   calls, errs, sleepFor>>

\* influx_client.write(..).await returns Err: the ? returns it.
WriteErr ==
    /\ pc = "write"
    /\ LET idx == writes[Len(writes)].def
       IN  Continue([kind |-> "write_err", idx |-> idx, coerced |-> 0, float_val |-> 0,
                     evals |-> {}],
                    Settle(writes, "err"), evals)
    /\ UNCHANGED <<config, influx_client, network, firstConnect, event, payload,
                   calls, errs, sleepFor>>

Next ==
    \/ LoadConfig
    \/ NewClient
    \/ Subscribe
    \/ PollPublish
    \/ PollOther
    \/ PollError
    \/ Wake
    \/ WriteOk
    \/ WriteErr

Spec == Init /\ [][Next]_vars

\* ================================================================= claims

\* process_message returned in this step, with the given status.
Returned(status) == result' # result /\ result'.status = status

\* C1: the iteration that polls a publish event invokes process_message
\* exactly once, and no other iteration invokes it: a message is processed
\* once and never again; when the call succeeds the loop stays
\* Connected; when it fails and terminate_on_error is true the loop ends
\* with that same error; when it fails and terminate_on_error is false or
\* unset the loop stays Connected.
C1_PublishPolicy ==
    /\ [](calls = IF event = "publish" THEN 1 ELSE 0)
    /\ [][ /\ Returned("ok") => pc' = "poll" /\ exit' = NoExit
           /\ Returned("err") /\ config.terminate_on_error = "true" =>
                /\ pc' = "exit"
                /\ exit' = [kind |-> "error", error |-> result'.err]
           /\ Returned("err") /\ config.terminate_on_error \in {"false", "None"} =>
                pc' = "poll" /\ exit' = NoExit
         ]_vars

\* C1 witness: a write call failed under terminate_on_error and main ended
\* with the write error, the message having been processed once.
C1_Witness ==
    /\ pc = "exit"
    /\ result.status = "err"
    /\ result.err.kind = "Write"
    /\ exit.error = result.err
    /\ calls = 1

\* C2: every Err of poll ends the loop when terminate_on_error is true and
\* otherwise starts one sleep of 5 seconds after which the loop polls again,
\* whatever the number of consecutive errors.
C2_TransportPolicy ==
    [][ /\ errs' = errs + 1 =>
             IF config.terminate_on_error = "true"
             THEN pc' = "exit" /\ exit'.kind = "error"
                  /\ exit'.error.kind = "Transport"
             ELSE pc' = "sleep" /\ sleepFor' = 5 /\ exit' = NoExit
        /\ pc = "sleep" => pc' = "poll" /\ exit' = NoExit
      ]_vars

\* C2 witness: the second consecutive transport error, answered by the
\* same 5-second sleep.
C2_Witness == pc = "sleep" /\ errs = 2 /\ sleepFor = 5

\* C3: a failure of the initial connect or subscribe ends the process
\* whatever terminate_on_error is, and no message is processed after it.
C3_InitialFailureFatal ==
    (firstConnect = "failed" \/ exit.error.kind = "Subscribe") =>
        Terminated /\ calls = 0

\* C4: a well-formed document whose version is neither 1 nor 2 is rejected
\* with a configuration error value, before any subscription or write.
C4_VersionIsConfigError ==
    (config.wellformed /\ config.version \notin {1, 2}
       /\ pc \notin {"load", "new_client"}) =>
        /\ Terminated
        /\ exit = [kind |-> "error", error |-> Error("Config", 0)]
        /\ calls = 0 /\ writes = <<>>

\* ---------------------------------------- the current process_message call
NDefs == Len(config.measurements)
Def(k) == config.measurements[k]

\* A process_message call has been made and its payload parsed as JSON.
Parsed == event = "publish" /\ payload.utf8 /\ payload.json_ok

\* The matches of definition k's path in the payload (none if the path is
\* invalid).
MatchesOf(k) ==
    IF Def(k).path.valid THEN Find(payload.json, Def(k).path.segs) ELSE <<>>

NoMatch(k)  == Def(k).path.valid /\ MatchesOf(k) = <<>>
\* The path matches and the first match is numeric or a string.
Writable(k) == MatchesOf(k) # <<>> /\ MatchesOf(k)[1].t \in {"number", "string"}

WritesFor(k) == {i \in 1..Len(writes) : writes[i].def = k}
ValueOf(w)   == CHOOSE v \in {fv[2] : fv \in w.request.points[1].fields} : TRUE

\* Definition k did not end the call: its path is valid and its write, if
\* it has one to make, returned Ok.
Passed(k) ==
    /\ Def(k).path.valid
    /\ Writable(k) => \E i \in WritesFor(k) : writes[i].outcome = "ok"
\* Nothing before definition k ended the call.
Reached(k) == \A j \in 1..(k - 1) : Passed(j)

\* The evaluation of an expression fails.
ExprFails(e) == e.kind \in {"undefined", "syntax"}

\* A failed write is the last write of its call, and the call returned
\* that write's error: no write is attempted for a later definition.
FailedWriteIsLast ==
    \A i \in 1..Len(writes) :
        writes[i].outcome = "err" =>
            /\ i = Len(writes)
            /\ pc # "write"
            /\ result = [status |-> "err", err |-> Error("Write", writes[i].def)]

\* The call returned before it had evaluated every definition.
StoppedEarly ==
    Parsed /\ result.status \in {"ok", "err"} /\ \E k \in 1..NDefs : ~Reached(k)

\* C5 as stated: a failed write ends the call with its error and no later
\* write, and a write failure is the one case in which one definition's
\* failure stops the definitions after it.
C5_WriteFailureOnlyStop ==
    /\ FailedWriteIsLast
    /\ StoppedEarly => \E i \in 1..Len(writes) : writes[i].outcome = "err"

\* C5 amended: a failed write ends the call with its error and no later
\* write; a write failure and an invalid path are the two cases in which
\* one definition's failure stops the definitions after it.
C5_WriteFailureStops ==
    /\ FailedWriteIsLast
    /\ StoppedEarly =>
          \/ \E i \in 1..Len(writes) : writes[i].outcome = "err"
          \/ /\ result.err.kind = "Path"
             /\ ~Def(result.err.def).path.valid
             /\ Reached(result.err.def)

\* C5 witness: the write of the first of two definitions failed, the
\* second would have had a value to write, and the loop polls again.
C5_Witness ==
    /\ Parsed /\ NDefs = 2 /\ Writable(2)
    /\ Len(writes) = 1 /\ writes[1].def = 1 /\ writes[1].outcome = "err"
    /\ pc = "poll"

\* C6 as stated: a call in which no write fails makes exactly one write for
\* each definition whose path matches a number or string first, none for
\* the others, and a path matching exactly one numeric leaf writes one
\* point with that leaf's value under the definition's name.
C6_OneWritePerMatch ==
    (Parsed /\ result.status \in {"ok", "err"}
       /\ \A i \in 1..Len(writes) : writes[i].outcome # "err") =>
        \A k \in 1..NDefs :
            /\ Cardinality(WritesFor(k)) = IF Writable(k) THEN 1 ELSE 0
            /\ (Len(MatchesOf(k)) = 1 /\ MatchesOf(k)[1].t = "number") =>
                  \A i \in WritesFor(k) :
                      /\ Len(writes[i].request.points) = 1
                      /\ writes[i].request.points[1].measurement = Def(k).name
                      /\ writes[i].request.points[1].fields =
                             {<<"value", MatchesOf(k)[1].n>>}

\* C6 amended: a call that returns success makes exactly one write for each
\* definition whose path matches a number or string first and none for the
\* others; a path matching exactly one numeric leaf writes one point under
\* the definition's name, with the leaf's value when the definition has no
\* expression and with what the expression makes of it otherwise.
C6_OneWritePerMatchOnSuccess ==
    (Parsed /\ result.status = "ok") =>
        \A k \in 1..NDefs :
            /\ Cardinality(WritesFor(k)) = IF Writable(k) THEN 1 ELSE 0
            /\ (Len(MatchesOf(k)) = 1 /\ MatchesOf(k)[1].t = "number") =>
                  \A i \in WritesFor(k) :
                      /\ Len(writes[i].request.points) = 1
                      /\ writes[i].request.points[1].measurement = Def(k).name
                      /\ writes[i].request.points[1].fields =
                           {<<"value",
                              IF Def(k).expression.kind = "none"
                              THEN MatchesOf(k)[1].n
                              ELSE ApplyExpression(MatchesOf(k)[1].n,
                                                   Def(k).expression)>>}

\* C6 witness: a successful call over two definitions, the first skipped
\* and the second writing the single numeric leaf 23.5 its path matches.
C6_Witness ==
    /\ Parsed /\ result.status = "ok" /\ NDefs = 2
    /\ ~Writable(1) /\ Len(MatchesOf(2)) = 1
    /\ Len(writes) = 1 /\ writes[1].def = 2
    /\ writes[1].request.points[1].fields = {<<"value", 235>>}

\* C7: a definition whose path has no match gets no write and is the
\* source of no error, and the loop goes on to the definition after it;
\* when no definition matches the call makes no write and returns Ok.
C7_NoMatchSkipped ==
    Parsed =>
        /\ \A k \in 1..NDefs :
             NoMatch(k) =>
                 /\ WritesFor(k) = {}
                 /\ result.err.def # k
                 /\ (Reached(k) /\ k < NDefs) =>
                       /\ Writable(k + 1) => WritesFor(k + 1) # {}
                       /\ ~Def(k + 1).path.valid =>
                              result.err = Error("Path", k + 1)
        /\ (\A k \in 1..NDefs : NoMatch(k)) =>
               writes = <<>> /\ result.status = "ok"

\* C7 witness: the first definition has no match in the payload and the
\* second one's write has been made.
C7_Witness ==
    /\ Parsed /\ NDefs = 2 /\ NoMatch(1) /\ Writable(2)
    /\ Len(writes) = 1 /\ writes[1].def = 2 /\ writes[1].outcome = "ok"
    /\ result.status = "ok"

\* C8: when the evaluation of a definition's expression fails, its write is
\* still made, with the coerced value of the first match unchanged; the
\* call does not fail on the expression and the later definitions are
\* still evaluated.
C8_ExpressionFailureKeepsValue ==
    Parsed =>
        \A k \in 1..NDefs :
            (ExprFails(Def(k).expression) /\ Writable(k) /\ Reached(k)) =>
                /\ Cardinality(WritesFor(k)) = 1
                /\ \A i \in WritesFor(k) :
                       /\ ValueOf(writes[i]) = Coerce(MatchesOf(k)[1]).f
                       /\ ValueOf(writes[i]) =
                              IF MatchesOf(k)[1].t = "number"
                              THEN MatchesOf(k)[1].n ELSE writes[i].coerced
                /\ result.err.def = k => result.err.kind = "Write"
                /\ (Passed(k) /\ k < NDefs /\ Writable(k + 1)) =>
                       WritesFor(k + 1) # {}

\* C8 witness: the expression of the first definition references an
\* undefined variable, 40.0 was written for it, and the second definition's
\* write followed.
C8_Witness ==
    /\ Parsed /\ NDefs = 2 /\ Def(1).expression.kind = "undefined"
    /\ Len(writes) = 2 /\ writes[1].def = 1 /\ writes[2].def = 2
    /\ writes[1].request.points[1].fields = {<<"value", 400>>}

\* The first match of definition k is the string s.
FirstIsString(k) == MatchesOf(k) # <<>> /\ MatchesOf(k)[1].t = "string"

\* C9: a first match that is a string is coerced to the float it parses to,
\* or to 0.0 when it does not parse, never to an error: the definition's
\* write is made, from that value.
C9_StringCoercion ==
    /\ ParseF64(<<"2", "3", ".", "5">>) = [ok |-> TRUE, f |-> 235]
    /\ ParseF64(<<"-", "4">>) = [ok |-> TRUE, f |-> 0 - 40]
    /\ ~ParseF64(<<"a", "b", "c">>).ok
    /\ ~ParseF64(<<".">>).ok
    /\ Parsed =>
         \A k \in 1..NDefs :
             (FirstIsString(k) /\ Reached(k)) =>
                 /\ Cardinality(WritesFor(k)) = 1
                 /\ result.err.def = k => result.err.kind = "Write"
                 /\ \A i \in WritesFor(k) :
                      LET p == ParseF64(MatchesOf(k)[1].s)
                      IN  /\ writes[i].coerced = IF p.ok THEN p.f ELSE 0
                          /\ Def(k).expression.kind = "none" =>
                                 ValueOf(writes[i]) = writes[i].coerced

\* C9 witness: the string "abc" was the first match of a definition
\* without expression, and 0.0 was written for it.
C9_Witness ==
    /\ Parsed /\ NDefs >= 1 /\ FirstIsString(1)
    /\ MatchesOf(1)[1].s = <<"a", "b", "c">>
    /\ Def(1).expression.kind = "none"
    /\ Len(writes) >= 1 /\ writes[1].def = 1
    /\ writes[1].request.points[1].fields = {<<"value", 0>>}

\* What both variants send for a write, framing and timestamp aside.
SameContent(w) ==
    /\ Len(w.request.points) = 1
    /\ w.request.points[1].measurement = Def(w.def).name
    /\ w.request.points[1].fields =
           {<<"value", ApplyExpression(w.coerced, Def(w.def).expression)>>}
    /\ w.request.points[1].tags =
           (IF Def(w.def).tags.some THEN Def(w.def).tags.kv ELSE {})
    /\ w.request.target = config.bucket

C11_TerminatesOnlyByPolicy ==
    /\ [](Terminated =>
            \/ exit.kind = "panic"
            \/ exit.error.kind \in {"Config", "Subscribe"}
            \/ /\ config.terminate_on_error = "true"
               /\ exit.error.kind \in {"Encoding", "Json", "Path", "Write", "Transport"})
    /\ [][(Connected /\ config.terminate_on_error \in {"false", "None"})
             => Connected']_vars

\* C11 witness: with terminate_on_error unset the loop polls again after a
\* failed write.
C11_Witness ==
    /\ config.terminate_on_error = "None"
    /\ pc = "poll"
    /\ result = [status |-> "err", err |-> Error("Write", 1)]

\* C12: a definition whose path does not parse, once reached, ends the call
\* with a path error and neither it nor a later definition gets a write; the
\* loop polls again unless terminate_on_error is set, and ends with the path
\* error if it is.
C12_InvalidPathFailsCall ==
    Parsed =>
        \A k \in 1..NDefs :
            (~Def(k).path.valid /\ Reached(k)) =>
                /\ result = [status |-> "err", err |-> Error("Path", k)]
                /\ \A j \in k..NDefs : WritesFor(j) = {}
                /\ IF config.terminate_on_error = "true"
                   THEN pc = "exit" /\ exit = [kind |-> "error", error |-> Error("Path", k)]
                   ELSE pc = "poll" /\ exit = NoExit

\* C12 witness: the first definition's write returned Ok, the second
\* definition's path does not parse, and the loop polls again.
C12_Witness ==
    /\ Parsed /\ NDefs = 2 /\ ~Def(2).path.valid
    /\ Len(writes) = 1 /\ writes[1].outcome = "ok"
    /\ result.err = Error("Path", 2)
    /\ pc = "poll"

\* C13: a payload that is not UTF-8, or not JSON, fails the call before any
\* definition is evaluated: no write is made and no expression evaluated,
\* and with terminate_on_error false or unset the loop polls again.
C13_BadPayloadFailsCall ==
    (event = "publish" /\ ~(payload.utf8 /\ payload.json_ok)) =>
        /\ result = [status |-> "err",
                     err |-> Error(IF payload.utf8 THEN "Json" ELSE "Encoding", 0)]
        /\ writes = <<>> /\ evals = {}
        /\ config.terminate_on_error \in {"false", "None"} =>
               pc = "poll" /\ exit = NoExit

\* C13 witness: a payload that is UTF-8 but not JSON was polled under a
\* configuration with a definition, and the loop polls again.
C13_Witness ==
    /\ event = "publish" /\ payload.utf8 /\ ~payload.json_ok
    /\ NDefs >= 1 /\ Def(1).path.valid
    /\ pc = "poll"

\* The first match of definition k is neither a number nor a string.
FirstIsOther(k) ==
    MatchesOf(k) # <<>> /\ MatchesOf(k)[1].t \notin {"number", "string"}

\* C14: a definition whose first match is neither numeric nor a string gets
\* no write, is the source of no error, has its expression not evaluated,
\* and the loop goes on to the definition after it.
C14_OtherTypeSkipped ==
    Parsed =>
        \A k \in 1..NDefs :
            FirstIsOther(k) =>
                /\ WritesFor(k) = {}
                /\ result.err.def # k
                /\ k \notin evals
                /\ (Reached(k) /\ k < NDefs) =>
                       /\ Writable(k + 1) => WritesFor(k + 1) # {}
                       /\ ~Def(k + 1).path.valid =>
                              result.err = Error("Path", k + 1)

\* C14 witness: the first definition has an expression and its first match
\* is a boolean; the only write is the second definition's.
C14_Witness ==
    /\ Parsed /\ NDefs = 2 /\ FirstIsOther(1) /\ MatchesOf(1)[1].t = "bool"
    /\ Def(1).expression.kind # "none"
    /\ Len(writes) = 1 /\ writes[1].def = 2

\* The write calls that have not returned.
InFlight == {i \in 1..Len(writes) : writes[i].outcome = "pending"}

\* C15: at most one process_message call is active and at most one write
\* call in flight, and while a call is active nothing is polled: the event,
\* the payload and the transport's state stay as they are until it returns.
C15_OneMessageAtATime ==
    /\ [](/\ calls <= 1
          /\ Cardinality(InFlight) <= 1
          /\ InFlight \subseteq {Len(writes)}
          /\ (InFlight # {}) = (pc = "write")
          /\ (result.status = "running") = (pc = "write")
          /\ pc = "write" => event = "publish")
    /\ [][pc = "write" =>
            /\ event' = event /\ payload' = payload /\ calls' = calls
            /\ network' = network /\ errs' = errs
            /\ Len(writes') >= Len(writes)]_vars

\* C15 witness: the second write of a call is in flight, the first having
\* returned.
C15_Witness ==
    /\ pc = "write" /\ Len(writes) = 2
    /\ writes[1].outcome = "ok" /\ writes[2].outcome = "pending"

\* C16: the writes of a call are in the order of their definitions in the
\* configuration, with at most one write for a definition.
C16_WritesInConfigOrder ==
    \A i, j \in 1..Len(writes) : i < j => writes[i].def < writes[j].def

\* C16 witness: two writes of one call, for the first and for the second
\* definition.
C16_Witness ==
    /\ Len(writes) = 2 /\ writes[1].def = 1 /\ writes[2].def = 2
    /\ result.status = "ok"

\* C17: after a poll that returned an event other than a publish the loop
\* polls again: process_message was not called, no write was made and no
\* sleep started.
C17_OtherEventsIgnored ==
    /\ [](event = "other" =>
            /\ pc = "poll" /\ exit = NoExit
            /\ calls = 0 /\ result = NoResult /\ writes = <<>> /\ evals = {}
            /\ sleepFor = 0)
    /\ [][event' = "other" /\ pc = "poll" => pc' = "poll" /\ sleepFor' = sleepFor]_vars

\* C17 witness: an event other than a publish was polled on an established
\* connection.
C17_Witness ==
    event = "other" /\ network /\ firstConnect = "ok" /\ pc = "poll"

\* C18: when a call fails at definition k, on its write or on its path,
\* the writes made before stand: each definition before k that had a value
\* to write has exactly one write, which returned Ok, no definition after
\* k has one, and k itself has its failed write or, on a path error, none.
C18_FailedCallKeepsPrefix ==
    (Parsed /\ result.status = "err") =>
        LET k == result.err.def
        IN  /\ k \in 1..NDefs
            /\ \A j \in 1..(k - 1) :
                 /\ Cardinality(WritesFor(j)) = IF Writable(j) THEN 1 ELSE 0
                 /\ \A i \in WritesFor(j) : writes[i].outcome = "ok"
            /\ \A j \in (k + 1)..NDefs : WritesFor(j) = {}
            /\ IF result.err.kind = "Write"
               THEN /\ Cardinality(WritesFor(k)) = 1
                    /\ \A i \in WritesFor(k) : writes[i].outcome = "err"
               ELSE result.err.kind = "Path" /\ WritesFor(k) = {}

\* C18 witness: the call failed on the write of the second definition, and
\* the write of the first one stands.
C18_Witness ==
    /\ Parsed /\ result = [status |-> "err", err |-> Error("Write", 2)]
    /\ Len(writes) = 2 /\ writes[1].def = 1 /\ writes[1].outcome = "ok"

\* The result evalexpr gives for definition k's expression with value set
\* to c and no other variable.
ResultOf(k, c) ==
    eval_with_context_mut(Def(k).expression, [value |-> <<c>>, x |-> <<>>])

\* C19: when the expression of a definition that is reached with a value
\* evaluates successfully, exactly one write is made for the definition; it
\* carries the result if that is a Float, the result as a float if it is an
\* Int, and the coerced value if it is of any other type.
C19_ExpressionResultByType ==
    Parsed =>
        \A k \in 1..NDefs :
            (/\ Def(k).expression.kind # "none" /\ Writable(k) /\ Reached(k)
             /\ ResultOf(k, Coerce(MatchesOf(k)[1]).f).ok) =>
                /\ Cardinality(WritesFor(k)) = 1
                /\ k \in evals
                /\ \A i \in WritesFor(k) :
                     LET c == writes[i].coerced
                         r == ResultOf(k, c)
                     IN  /\ c = Coerce(MatchesOf(k)[1]).f
                         /\ r.ty = "Float" => ValueOf(writes[i]) = r.f
                         /\ r.ty = "Int" => ValueOf(writes[i]) = r.i * 10
                         /\ r.ty \in {"Boolean", "String", "Tuple", "Empty"} =>
                                ValueOf(writes[i]) = c

\* C19 witness: of two definitions the first has an expression with an Int
\* result, 7, and the second one with a result that is neither Float nor
\* Int; 7.0 and the coerced 23.5 were written.
C19_Witness ==
    /\ Parsed /\ NDefs = 2 /\ Len(writes) = 2
    /\ Def(1).expression.kind = "int" /\ ValueOf(writes[1]) = 70
    /\ Def(2).expression.kind \in {"bool", "string", "tuple", "assign"}
    /\ writes[2].def = 2 /\ ValueOf(writes[2]) = 235

\* The value written for definition k when its expression sees value = c
\* and no variable any other evaluation has set.
FreshValue(k, c) ==
    IF Def(k).expression.kind = "none" THEN c
    ELSE LET r == ResultOf(k, c)
         IN  IF r.ok /\ r.ty = "Float" THEN r.f
             ELSE IF r.ok /\ r.ty = "Int" THEN r.i * 10
             ELSE c

\* C20: the writes of a call are a function of its payload, the
\* configuration and the outcomes of its own writes.  The definitions
\* written are those with a value to write that no invalid path or failed
\* write of this call precedes; each request is the one the configured
\* client makes for the value its expression gives in a context holding
\* value alone; and a call starts with no write, evaluation or result of
\* an earlier call.
C20_NoCarriedState ==
    /\ [](Parsed =>
            /\ {writes[i].def : i \in 1..Len(writes)} =
                  {k \in 1..NDefs : Writable(k) /\ Reached(k)}
            /\ evals = {k \in 1..NDefs :
                          Writable(k) /\ Reached(k) /\ Def(k).expression.kind # "none"}
            /\ \A i \in 1..Len(writes) :
                 LET k == writes[i].def
                 IN  writes[i].request =
                         InfluxWrite(InfluxClientNew(config), Def(k).name,
                                     FreshValue(k, Coerce(MatchesOf(k)[1]).f),
                                     config.bucket, Def(k).tags))
    /\ [][(pc = "poll" /\ event' = "publish") =>
            /\ calls' = 1
            /\ \A i \in 1..Len(writes') : writes'[i].outcome = "pending"
            /\ Len(writes') <= 1]_vars

\* C20 witness: the first definition's expression assigns a variable, the
\* second one's reads a variable that it finds unset: its evaluation failed
\* and the coerced 40.0 was written.
C20_Witness ==
    /\ Parsed /\ NDefs = 2
    /\ Def(1).expression.kind = "assign" /\ Def(2).expression.kind = "undefined"
    /\ Len(writes) = 2 /\ writes[1].outcome = "ok" /\ writes[2].def = 2
    /\ ValueOf(writes[2]) = 400 /\ evals = {1, 2}

====
